---------------------------- MODULE Spec2Model ----------------------------
(***************************************************************************)
(* Task manager: the task store (TaskContext.jsx), the localStorage hook    *)
(* (useLocalStorage.js) and the validation utilities (validation.js).       *)
(*                                                                          *)
(* JavaScript values are tagged records: [t |-> "string", v |-> ...],       *)
(* [t |-> "number", v |-> n], [t |-> "Date", v |-> n], ... .  A task        *)
(* description is a sequence of one-character strings, so that the regular  *)
(* expressions of sanitizeInput are computed character by character.  Ids,  *)
(* filter and theme values and ISO date strings are only ever compared for  *)
(* equality and are atoms.  A property absent from an object has the value  *)
(* Undef.                                                                   *)
(***************************************************************************)
EXTENDS Integers, Sequences, FiniteSets, TLC

(***************************************************************************)
(* Bounds of the model.                                                     *)
(***************************************************************************)
MaxTasks == 3
MaxNewIds == 1
MaxTime == 2
MaxFaults == 1
MaxExternal == 1

(***************************************************************************)
(* Program constants.                                                       *)
(***************************************************************************)
MaxDescriptionLength == 500
SizeLimit == 5 * 1024 * 1024

(***************************************************************************)
(* JavaScript values.                                                       *)
(***************************************************************************)
Undef == [t |-> "undefined"]
Null == [t |-> "null"]
Str(s) == [t |-> "string", v |-> s]
Num(n) == [t |-> "number", v |-> n]
Bool(b) == [t |-> "boolean", v |-> b]
DateV(n) == [t |-> "Date", v |-> n]
Arr(s) == [t |-> "array", v |-> s]
\* NaN: a number that compares false with every number
NaN == [t |-> "number"]
InvalidTime == 0
Times == 1..MaxTime

typeof(x) == IF x.t \in {"null", "array", "Date"} THEN "object" ELSE x.t
IsArray(x) == x.t = "array"

\* Date.prototype.toISOString / Date.parse on the instants of the model
IsoNames == <<"T1", "T2", "T3", "T4">>
IsoString(n) == IsoNames[n]
DateParse(s) ==
    IF \E n \in 1..Len(IsoNames) : IsoNames[n] = s
    THEN CHOOSE n \in 1..Len(IsoNames) : IsoNames[n] = s
    ELSE InvalidTime

(***************************************************************************)
(* Characters.                                                              *)
(***************************************************************************)
LowerLetters == {"a", "b", "c", "d", "e", "f", "g", "h", "i", "j", "k", "l", "m",
                 "n", "o", "p", "q", "r", "s", "t", "u", "v", "w", "x", "y", "z"}
UpperLetters == {"O", "N", "S"}
Digits == {"0", "1", "2", "3", "4", "5", "6", "7", "8", "9"}
IsWordChar(c) == c \in LowerLetters \cup UpperLetters \cup Digits \cup {"_"}
IsSpace(c) == c \in {" ", "\t", "\n"}
IsQuote(c) == c \in {"\"", "'"}
Lower(c) == IF c = "O" THEN "o" ELSE IF c = "N" THEN "n" ELSE IF c = "S" THEN "s" ELSE c

\* the literal pat occurs in s at position i, ignoring case (flag i)
MatchAt(s, i, pat) ==
    /\ i >= 1
    /\ i + Len(pat) - 1 <= Len(s)
    /\ \A k \in 1..Len(pat) : Lower(s[i + k - 1]) = pat[k]
\* RegExp.prototype.test for a literal pattern with flag i
Contains(s, pat) == \E i \in 1..Len(s) : MatchAt(s, i, pat)

Min(S) == CHOOSE x \in S : \A y \in S : x <= y
Max(S) == CHOOSE x \in S : \A y \in S : x >= y

JAVASCRIPT == <<"j", "a", "v", "a", "s", "c", "r", "i", "p", "t", ":">>
VBSCRIPT == <<"v", "b", "s", "c", "r", "i", "p", "t", ":">>
DATA == <<"d", "a", "t", "a", ":">>
ONLOAD == <<"o", "n", "l", "o", "a", "d">>
ONERROR == <<"o", "n", "e", "r", "r", "o", "r">>
ONCLICK == <<"o", "n", "c", "l", "i", "c", "k">>
IFRAME == <<"<", "i", "f", "r", "a", "m", "e">>
OBJECT == <<"<", "o", "b", "j", "e", "c", "t">>
EMBED == <<"<", "e", "m", "b", "e", "d">>
SCRIPTOPEN == <<"<", "s", "c", "r", "i", "p", "t">>
SCRIPTCLOSE == <<"<", "/", "s", "c", "r", "i", "p", "t", ">">>

(***************************************************************************)
(* sanitizeInput: the five steps of the replace chain.                      *)
(***************************************************************************)
\* .replace(/<[^>]*>/g, '')
RECURSIVE StripTagsFrom(_, _)
StripTagsFrom(s, i) ==
    LET opens == {j \in i..Len(s) : s[j] = "<" /\ \E k \in (j + 1)..Len(s) : s[k] = ">"}
    IN IF opens = {} THEN SubSeq(s, i, Len(s))
       ELSE SubSeq(s, i, Min(opens) - 1)
            \o StripTagsFrom(s, Min({k \in (Min(opens) + 1)..Len(s) : s[k] = ">"}) + 1)
StripTags(s) == StripTagsFrom(s, 1)

\* /<script\b[^<]*(?:(?!<\/script>)<[^<]*)*<\/script>/gi : the end of the
\* match that starts at i, or 0 when there is none
ScriptBlockEnd(s, i) ==
    LET after == i + Len(SCRIPTOPEN)
        closes == {j \in after..Len(s) : MatchAt(s, j, SCRIPTCLOSE)}
    IN IF /\ MatchAt(s, i, SCRIPTOPEN)
          /\ after <= Len(s)
          /\ ~IsWordChar(s[after])
          /\ closes # {}
       THEN Min(closes) + Len(SCRIPTCLOSE) - 1
       ELSE 0
RECURSIVE StripScriptBlocksFrom(_, _)
StripScriptBlocksFrom(s, i) ==
    LET starts == {j \in i..Len(s) : ScriptBlockEnd(s, j) # 0}
    IN IF starts = {} THEN SubSeq(s, i, Len(s))
       ELSE SubSeq(s, i, Min(starts) - 1)
            \o StripScriptBlocksFrom(s, ScriptBlockEnd(s, Min(starts)) + 1)
StripScriptBlocks(s) == StripScriptBlocksFrom(s, 1)

\* .replace(/javascript:/gi, '')
RECURSIVE StripJavascriptFrom(_, _)
StripJavascriptFrom(s, i) ==
    LET starts == {j \in i..Len(s) : MatchAt(s, j, JAVASCRIPT)}
    IN IF starts = {} THEN SubSeq(s, i, Len(s))
       ELSE SubSeq(s, i, Min(starts) - 1)
            \o StripJavascriptFrom(s, Min(starts) + Len(JAVASCRIPT))
StripJavascript(s) == StripJavascriptFrom(s, 1)

\* the first position at or after i whose character does not satisfy the
\* class (Len(s) + 1 when every remaining character does)
SkipSpaces(s, i) ==
    Min({j \in i..(Len(s) + 1) : j = Len(s) + 1 \/ ~IsSpace(s[j])})
SkipWord(s, i) ==
    Min({j \in i..(Len(s) + 1) : j = Len(s) + 1 \/ ~IsWordChar(s[j])})
SkipNonQuotes(s, i) ==
    Min({j \in i..(Len(s) + 1) : j = Len(s) + 1 \/ IsQuote(s[j])})

\* /\s*on\w+\s*=\s*["'][^"']*["']/gi : the end of the match that starts at
\* i, or 0 when there is none.  Every quantifier is followed by a character
\* outside its class, so the greedy match is the only one.
EventHandlerEnd(s, i) ==
    LET o == SkipSpaces(s, i)
        w == o + 2
        e == SkipWord(s, w)
        q == SkipSpaces(s, e)
        r == SkipSpaces(s, q + 1)
        c == SkipNonQuotes(s, r + 1)
    IN IF /\ MatchAt(s, o, <<"o", "n">>)
          /\ e > w
          /\ q <= Len(s) /\ s[q] = "="
          /\ r <= Len(s) /\ IsQuote(s[r])
          /\ c <= Len(s)
       THEN c
       ELSE 0
RECURSIVE StripEventHandlersFrom(_, _)
StripEventHandlersFrom(s, i) ==
    LET starts == {j \in i..Len(s) : EventHandlerEnd(s, j) # 0}
    IN IF starts = {} THEN SubSeq(s, i, Len(s))
       ELSE SubSeq(s, i, Min(starts) - 1)
            \o StripEventHandlersFrom(s, EventHandlerEnd(s, Min(starts)) + 1)
StripEventHandlers(s) == StripEventHandlersFrom(s, 1)

\* String.prototype.trim
Trim(s) ==
    LET keep == {i \in 1..Len(s) : ~IsSpace(s[i])}
    IN IF keep = {} THEN <<>> ELSE SubSeq(s, Min(keep), Max(keep))

sanitizeInput(input) ==
    IF typeof(input) # "string" THEN <<>>
    ELSE Trim(StripEventHandlers(StripJavascript(StripScriptBlocks(StripTags(input.v)))))


(***************************************************************************)
(* validation.js                                                            *)
(***************************************************************************)
suspiciousPatterns ==
    {JAVASCRIPT, VBSCRIPT, DATA, ONLOAD, ONERROR, ONCLICK, IFRAME, OBJECT, EMBED, SCRIPTOPEN}

\* the patterns are tested against the description as given, not against
\* the sanitized text
hasSuspiciousContent(description) ==
    /\ typeof(description) = "string"
    /\ \E pattern \in suspiciousPatterns : Contains(description.v, pattern)

\* the checks with the denylist tested before the length
SuspicionFirst(description, sanitized) ==
    IF Len(sanitized) = 0
    THEN [isValid |-> FALSE, error |-> "Task description cannot be empty",
          sanitized |-> <<>>]
    ELSE IF hasSuspiciousContent(description)
    THEN [isValid |-> FALSE, error |-> "Task description contains invalid characters",
          sanitized |-> sanitized]
    ELSE IF Len(sanitized) > MaxDescriptionLength
    THEN [isValid |-> FALSE, error |-> "Task description must be 500 characters or less",
          sanitized |-> SubSeq(sanitized, 1, MaxDescriptionLength)]
    ELSE [isValid |-> TRUE, error |-> "null", sanitized |-> sanitized]
\* the checks made once sanitized = sanitizeInput(description) is at hand
DescriptionResult(description, sanitized) ==
    IF Len(sanitized) = 0
    THEN [isValid |-> FALSE, error |-> "Task description cannot be empty",
          sanitized |-> <<>>]
    ELSE IF Len(sanitized) > MaxDescriptionLength
    THEN [isValid |-> FALSE, error |-> "Task description must be 500 characters or less",
          sanitized |-> SubSeq(sanitized, 1, MaxDescriptionLength)]
    ELSE IF hasSuspiciousContent(description)
    THEN [isValid |-> FALSE, error |-> "Task description contains invalid characters",
          sanitized |-> sanitized]
    ELSE [isValid |-> TRUE, error |-> "null", sanitized |-> sanitized]
checkTaskDescription(description) ==
    DescriptionResult(description, sanitizeInput(description))

\* descriptions typed into addTask: plain text; text inside a tag; a text
\* that becomes "onload" once its tag is stripped; blank; a denylisted text;
\* a text one character longer than the limit
DescPlain == <<"x">>
DescTagged == <<"<", "i", ">", "x">>
DescSplit == <<"o", "n", "<", "b", ">", "l", "o", "a", "d">>
DescBlank == <<" ">>
DescDenied == <<"d", "a", "t", "a", ":">>
DescLong == [i \in 1..(MaxDescriptionLength + 1) |-> "x"]
Descriptions == {DescPlain, DescTagged, DescSplit, DescBlank, DescDenied, DescLong}
DescStored == <<"m">>
\* a text in which the removal of one event handler brings the halves of
\* another together: sanitizeInput gives k ona="y", and k when applied again
DescNested ==
    <<"k", " ", "o", "n", " ", "o", "n", "b", "=", "\"", "x", "\"", "a", "=", "\"", "y", "\"">>

\* texts handed to the functions of validation.js on their own: a script
\* block followed by plain text; a text of exactly the limit; a denylisted
\* text and a tagged text whose sanitized forms are above and at the limit
ScriptBlock ==
    <<"<", "s", "c", "r", "i", "p", "t", ">", "a", "l", "e", "r", "t", "(", "1", ")",
      "<", "/", "s", "c", "r", "i", "p", "t", ">">>
Hello == <<"h", "e", "l", "l", "o">>
DescScript == ScriptBlock \o Hello
DescLimit == [i \in 1..MaxDescriptionLength |-> "x"]
DescLongDenied == DATA \o DescLimit
DescLongTagged == <<"<", "b", ">">> \o DescLimit
GateTexts ==
    Descriptions \cup {DescNested, DescScript, DescLimit, DescLongDenied, DescLongTagged}

\* validateTaskDescription, evaluated once for each text of the model
KnownTexts ==
    GateTexts \cup {sanitizeInput(Str(d)) : d \in GateTexts} \cup {DescStored}
DescriptionResults == [d \in KnownTexts |-> checkTaskDescription(Str(d))]
\* validateTaskDescription without its three checks
acceptDescription(description) ==
    [isValid |-> TRUE, error |-> "null", sanitized |-> sanitizeInput(description)]
validateTaskDescription(description) ==
    IF typeof(description) = "string" /\ description.v \in KnownTexts
    THEN DescriptionResults[description.v]
    ELSE checkTaskDescription(description)

\* a task object; extra is the length of the serialization of the properties
\* the application does not know (they are carried along by {...task})
TaskObject(id, description, completed, createdAt, order, extra) ==
    [t |-> "object", id |-> id, description |-> description, completed |-> completed,
     createdAt |-> createdAt, order |-> order, extra |-> extra]
IsTaskObject(x) == x.t = "object"

\* ToBoolean of the values a createdAt or completed property takes
Truthy(x) ==
    CASE x.t \in {"undefined", "null"} -> FALSE
      [] x.t = "boolean" -> x.v
      [] x.t = "number" -> x.v # 0
      [] x.t = "string" -> x.v # ""
      [] OTHER -> TRUE

validateTaskObject(task) ==
    IF task.t \in {"undefined", "null"} \/ typeof(task) # "object"
    THEN [isValid |-> FALSE, error |-> "Task must be an object"]
    ELSE IF ~IsTaskObject(task)
            \/ task.id = Undef \/ task.description = Undef \/ task.completed = Undef
    THEN [isValid |-> FALSE, error |-> "Missing required fields"]
    ELSE IF typeof(task.id) # "string" \/ task.id.v = ""
    THEN [isValid |-> FALSE, error |-> "Task ID must be a non-empty string"]
    ELSE IF typeof(task.description) # "string"
    THEN [isValid |-> FALSE, error |-> "Task description must be a string"]
    ELSE IF typeof(task.completed) # "boolean"
    THEN [isValid |-> FALSE, error |-> "Task completed status must be a boolean"]
    ELSE IF Truthy(task.createdAt) /\ task.createdAt.t # "Date"
            /\ typeof(task.createdAt) # "string"
    THEN [isValid |-> FALSE, error |-> "Task createdAt must be a Date or string"]
    ELSE IF task.order # Undef /\ (typeof(task.order) # "number" \/ task.order.v < 0)
    THEN [isValid |-> FALSE, error |-> "Task order must be a non-negative number"]
    ELSE IF ~validateTaskDescription(task.description).isValid
    THEN [isValid |-> FALSE, error |-> "Task description validation failed"]
    ELSE [isValid |-> TRUE, error |-> "null"]

\* new Date(task.createdAt || Date.now())
NewDate(createdAt, now) ==
    IF Truthy(createdAt) THEN DateV(DateParse(createdAt.v)) ELSE DateV(now)

\* the element pushed with order: i in place of line 192
PositionalTask(task, i, now) ==
    [task EXCEPT
        !.description = Str(validateTaskDescription(task.description).sanitized),
        !.createdAt = IF task.createdAt.t = "Date" THEN task.createdAt
                      ELSE NewDate(task.createdAt, now),
        !.order = Num(i)]
\* the element pushed to sanitizedTasks for the valid element task at the
\* (0-based) index i
SanitizedTask(task, i, now) ==
    [task EXCEPT
        !.description = Str(validateTaskDescription(task.description).sanitized),
        !.createdAt = IF task.createdAt.t = "Date" THEN task.createdAt
                      ELSE NewDate(task.createdAt, now),
        !.order = IF typeof(task.order) = "number" THEN task.order ELSE Num(i)]

RECURSIVE SanitizedTasksFrom(_, _, _)
SanitizedTasksFrom(elems, i, now) ==
    IF i > Len(elems) THEN <<>>
    ELSE IF validateTaskObject(elems[i]).isValid
         THEN <<SanitizedTask(elems[i], i - 1, now)>> \o SanitizedTasksFrom(elems, i + 1, now)
         ELSE SanitizedTasksFrom(elems, i + 1, now)

\* the object validateTasksArray returns once the loop has filled
\* sanitizedTasks; an element left out has pushed to errors
TasksArrayResult(elems, sanitizedTasks) ==
    [isValid |-> Len(sanitizedTasks) = Len(elems),
     error |-> IF Len(sanitizedTasks) < Len(elems) THEN "Task errors" ELSE "null",
     sanitizedTasks |-> sanitizedTasks,
     removedCount |-> Len(elems) - Len(sanitizedTasks),
     \* the result has no property named sanitized
     sanitized |-> Undef]
validateTasksArray(tasksValue, now) ==
    IF ~IsArray(tasksValue)
    THEN [isValid |-> FALSE, error |-> "Tasks must be an array", sanitizedTasks |-> <<>>,
          removedCount |-> 0, sanitized |-> Undef]
    ELSE TasksArrayResult(tasksValue.v, SanitizedTasksFrom(tasksValue.v, 1, now))

validFilters == {Str("all"), Str("completed"), Str("pending")}
validateFilter(filterValue) ==
    IF filterValue \notin validFilters
    THEN [isValid |-> FALSE, error |-> "Invalid filter type", sanitized |-> Str("all")]
    ELSE [isValid |-> TRUE, error |-> "null", sanitized |-> filterValue]

validThemes == {Str("light"), Str("dark")}
validateLocalStorageData(key, data, now) ==
    CASE key = "tasks" -> validateTasksArray(data, now)
      [] key = "taskFilter" -> validateFilter(data)
      [] key = "theme" ->
           IF data \notin validThemes
           THEN [isValid |-> FALSE, error |-> "Invalid theme value", sanitized |-> Str("light")]
           ELSE [isValid |-> TRUE, error |-> "null", sanitized |-> data]

(***************************************************************************)
(* localStorage.  An item is absent or a text; a text is modelled by the    *)
(* JSON value it denotes, or is not parseable.  JSON.stringify turns a Date *)
(* into its ISO string (an invalid Date into null) and JSON.parse gives the *)
(* string back, not the Date.                                               *)
(***************************************************************************)
Keys == {"tasks", "taskFilter", "theme"}
NoItem == [kind |-> "absent", parseable |-> FALSE, v |-> Undef]
Text(v) == [kind |-> "text", parseable |-> TRUE, v |-> v]
Garbage == [kind |-> "text", parseable |-> FALSE, v |-> Undef]

ElementToJSON(e) ==
    IF IsTaskObject(e) /\ e.createdAt.t = "Date"
    THEN [e EXCEPT !.createdAt = IF e.createdAt.v = InvalidTime THEN Null
                                 ELSE Str(IsoString(e.createdAt.v))]
    ELSE e
ToJSON(value) ==
    IF IsArray(value)
    THEN Arr([i \in 1..Len(value.v) |-> ElementToJSON(value.v[i])])
    ELSE value
JSONstringify(value) == Text(ToJSON(value))
JSONparse(item) == item.v

\* serializedValue.length: the punctuation, property names, id, flag, date
\* and order of a task take ElementOverhead characters
ElementOverhead == 100
ElementLength(e) ==
    IF IsTaskObject(e)
    THEN ElementOverhead + e.extra
         + (IF typeof(e.description) = "string" THEN Len(e.description.v) ELSE 0)
    ELSE 4
RECURSIVE SumLengths(_, _)
SumLengths(elems, i) ==
    IF i > Len(elems) THEN 0 ELSE ElementLength(elems[i]) + 1 + SumLengths(elems, i + 1)
SerializedLength(value) ==
    IF IsArray(value) THEN 2 + SumLengths(value.v, 1) ELSE 12

(***************************************************************************)
(* useLocalStorage.js                                                       *)
(***************************************************************************)
NoError == [hasError |-> FALSE, errorType |-> "null", errorMessage |-> "null"]
ErrorOf(type, message) == [hasError |-> TRUE, errorType |-> type, errorMessage |-> message]

initialValue == [k \in Keys |->
    CASE k = "tasks" -> Arr(<<>>) [] k = "taskFilter" -> Str("all") [] k = "theme" -> Str("light")]

\* what the environment does to one call of setValue: the probe of
\* isLocalStorageAvailable, the exception setItem raises, and the probe made
\* before the quota cleanup
EnvOk == [avail |-> TRUE, fault |-> "none", availRetry |-> TRUE]
Envs == {EnvOk,
         [avail |-> FALSE, fault |-> "none", availRetry |-> FALSE],
         [avail |-> TRUE, fault |-> "QuotaExceededError", availRetry |-> TRUE],
         [avail |-> TRUE, fault |-> "QuotaExceededError", availRetry |-> FALSE],
         [avail |-> TRUE, fault |-> "QuotaMessage", availRetry |-> TRUE],
         [avail |-> TRUE, fault |-> "SecurityError", availRetry |-> TRUE],
         [avail |-> TRUE, fault |-> "Error", availRetry |-> TRUE]}

\* the lazy initializer without its two removeItem calls (lines 79 and 112)
ReadKeepsItem(key, item, avail, validation) ==
    IF ~avail
    THEN [value |-> initialValue[key],
          error |-> ErrorOf("UNAVAILABLE", "localStorage is not available"),
          item |-> item]
    ELSE IF item = NoItem
    THEN [value |-> initialValue[key], error |-> NoError, item |-> item]
    ELSE IF ~item.parseable
    THEN [value |-> initialValue[key],
          error |-> ErrorOf("PARSE_ERROR", "SyntaxError"),
          item |-> item]
    ELSE IF ~validation.isValid
    THEN [value |-> initialValue[key],
          error |-> ErrorOf("INVALID_DATA", validation.error),
          item |-> item]
    ELSE [value |-> IF validation.sanitized # Undef THEN validation.sanitized
                    ELSE JSONparse(item),
          error |-> NoError,
          item |-> item]
\* the lazy initializer of useState (lines 46-120): the value, the error
\* state and what is left under the key
\* validation: what validateLocalStorageData (line 65) says of the parsed item
ReadResult(key, item, avail, validation) ==
    IF ~avail
    THEN [value |-> initialValue[key],
          error |-> ErrorOf("UNAVAILABLE", "localStorage is not available"),
          item |-> item]
    ELSE IF item = NoItem
    THEN [value |-> initialValue[key], error |-> NoError, item |-> item]
    ELSE IF ~item.parseable
    THEN [value |-> initialValue[key],
          error |-> ErrorOf("PARSE_ERROR", "SyntaxError"),
          item |-> NoItem]
    ELSE IF ~validation.isValid
    THEN [value |-> initialValue[key],
          error |-> ErrorOf("INVALID_DATA", validation.error),
          item |-> NoItem]
    ELSE [value |-> IF validation.sanitized # Undef THEN validation.sanitized
                    ELSE JSONparse(item),
          error |-> NoError,
          item |-> item]
\* useState(initialValue): an initializer that does not read the storage
ReadNothing(key, store, avail, now) ==
    [value |-> initialValue[key], error |-> NoError, item |-> store[key]]
InitialRead(key, store, avail, now) ==
    ReadResult(key, store[key], avail,
               validateLocalStorageData(key, JSONparse(store[key]), now))

\* {...task, order: index}
WithOrder(e, index) ==
    IF IsTaskObject(e) THEN [e EXCEPT !.order = Num(index)]
    ELSE TaskObject(Undef, Undef, Undef, Undef, Num(index), 0)
\* the map without the order property
Unnumbered(elems) == elems
Renumbered(elems) == [i \in 1..Len(elems) |-> WithOrder(elems[i], i - 1)]

\* reading a property of null or undefined throws a TypeError
HasNullish(elems) == \E i \in 1..Len(elems) : elems[i].t \in {"null", "undefined"}
IdOf(e) == IF IsTaskObject(e) THEN e.id ELSE Undef
RemoveAt(elems, i) == SubSeq(elems, 1, i - 1) \o SubSeq(elems, i + 1, Len(elems))
InsertAt(elems, i, e) == SubSeq(elems, 1, i - 1) \o <<e>> \o SubSeq(elems, i, Len(elems))

\* the argument of setValue: a plain value, or one of the updater functions
\* of TaskContext.jsx and useTheme
SetTo(v) == [kind |-> "set", v |-> v]
\* prevTasks => [...prevTasks, newTask]
addTaskUpdater(prev, newTask) ==
    IF IsArray(prev) THEN [threw |-> FALSE, v |-> Arr(Append(prev.v, newTask))]
    ELSE [threw |-> TRUE, v |-> Undef]
\* prevTasks => prevTasks.map(task => task.id === id ? {...task, completed: !task.completed} : task)
toggleTaskUpdater(prev, id) ==
    IF IsArray(prev) /\ ~HasNullish(prev.v)
    THEN [threw |-> FALSE,
          v |-> Arr([i \in 1..Len(prev.v) |->
                       IF IdOf(prev.v[i]) = id
                       THEN [prev.v[i] EXCEPT !.completed = Bool(~Truthy(prev.v[i].completed))]
                       ELSE prev.v[i]])]
    ELSE [threw |-> TRUE, v |-> Undef]
\* prevTasks => prevTasks.filter(task => task.id !== id).map((task, index) => ({...task, order: index}))
deleteTaskUpdater(prev, id) ==
    IF IsArray(prev) /\ ~HasNullish(prev.v)
    THEN [threw |-> FALSE,
          v |-> Arr(Renumbered(SelectSeq(prev.v, LAMBDA e : IdOf(e) # id)))]
    ELSE [threw |-> TRUE, v |-> Undef]
\* Array.from, the two splices and the renumbering map
reorderTasksUpdater(prev, startIndex, endIndex) ==
    IF IsArray(prev)
    THEN LET removed == IF startIndex < Len(prev.v) THEN prev.v[startIndex + 1] ELSE Undef
             rest == IF startIndex < Len(prev.v) THEN RemoveAt(prev.v, startIndex + 1)
                     ELSE prev.v
             at == IF endIndex > Len(rest) THEN Len(rest) ELSE endIndex
         IN [threw |-> FALSE, v |-> Arr(Renumbered(InsertAt(rest, at + 1, removed)))]
    ELSE [threw |-> TRUE, v |-> Undef]
\* prevTheme => prevTheme === 'light' ? 'dark' : 'light'
toggleThemeUpdater(prev) ==
    [threw |-> FALSE, v |-> IF prev = Str("light") THEN Str("dark") ELSE Str("light")]

ApplyUpdate(u, prev) ==
    CASE u.kind = "set" -> [threw |-> FALSE, v |-> u.v]
      [] u.kind = "add" -> addTaskUpdater(prev, u.task)
      [] u.kind = "toggle" -> toggleTaskUpdater(prev, u.id)
      [] u.kind = "delete" -> deleteTaskUpdater(prev, u.id)
      [] u.kind = "reorder" -> reorderTasksUpdater(prev, u.from, u.to)
      [] u.kind = "toggleTheme" -> toggleThemeUpdater(prev)

\* the keys the quota cleanup removes (lines 179-184)
keysToTry == {"taskFilter", "theme"}
\* a cleanup that removes every key but the one being written
ClearOthers(store, key) == [k \in Keys |-> IF k # key THEN NoItem ELSE store[k]]
AfterCleanup(store, key) ==
    [k \in Keys |-> IF k \in keysToTry /\ k # key THEN NoItem ELSE store[k]]

\* what the try block of setValue can throw: the TypeError of an updater
\* applied to a value that is no array of objects, the Error of line 152, and
\* the exception of setItem; quota: the message includes 'quota'
Thrown(name, message, quota) == [name |-> name, message |-> message, quota |-> quota]
TypeError == Thrown("TypeError", "TypeError", FALSE)
SizeError == Thrown("Error", "Data size exceeds reasonable localStorage limits", FALSE)
StoreError(fault) ==
    IF fault = "QuotaMessage" THEN Thrown("Error", "The quota has been exceeded", TRUE)
    ELSE Thrown(fault, fault, FALSE)

\* the error type with the name of the error left unread
errorTypeByMessage(error) ==
    IF error.quota THEN "QUOTA_EXCEEDED"
    ELSE IF error.name = "SecurityError" THEN "SECURITY_ERROR"
    ELSE "WRITE_ERROR"
\* the error type the catch block determines (lines 168-196)
errorTypeOf(error) ==
    IF error.name = "QuotaExceededError" \/ error.quota THEN "QUOTA_EXCEEDED"
    ELSE IF error.name = "SecurityError" THEN "SECURITY_ERROR"
    ELSE "WRITE_ERROR"
\* the retry at line 187 reads valueToStore, the const of line 205, before
\* its declaration: a ReferenceError, caught at line 190, so that line 188
\* is not reached and the message stays the one of line 173
errorMessageOf(error) ==
    IF errorTypeOf(error) = "QUOTA_EXCEEDED" THEN "Storage quota exceeded. Try deleting"
    ELSE IF errorTypeOf(error) = "SECURITY_ERROR" THEN "Cannot access localStorage"
    ELSE error.message
\* what was thrown, for the record of the last call
OutcomeOf(error) ==
    CASE error = TypeError -> "threw"
      [] error = SizeError -> "oversize"
      [] error.name = "QuotaExceededError" \/ error.quota -> "quota"
      [] error.name = "SecurityError" -> "security"
      [] OTHER -> "other"

\* the catch block without its lines 204-206
KeepStored(stored, u) == [threw |-> FALSE, v |-> stored]
\* lines 204-206: the value is computed again from the closure's storedValue
StillUpdate(stored, u) == ApplyUpdate(u, stored)

\* the catch block (lines 164-207); availRetry: the probe of line 177;
\* attempts: the calls of setItem(key, ...) made in the try block.  The retry
\* of line 187 throws its ReferenceError while the argument is evaluated, so
\* it adds no call of setItem.
Caught(key, stored, store, u, error, availRetry, attempts) ==
    LET again == StillUpdate(stored, u)
        cleaned == IF errorTypeOf(error) = "QUOTA_EXCEEDED" /\ availRetry
                   THEN AfterCleanup(store, key) ELSE store
    IN [value |-> IF again.threw THEN stored ELSE again.v,
        error |-> ErrorOf(errorTypeOf(error), errorMessageOf(error)),
        store |-> cleaned,
        threw |-> again.threw,
        applied |-> ~again.threw,
        outcome |-> OutcomeOf(error),
        attempts |-> attempts,
        cleanups |-> IF errorTypeOf(error) = "QUOTA_EXCEEDED" /\ availRetry THEN 1 ELSE 0]

\* setValue (lines 123-208) for the hook of key, whose closure holds stored.
\* The result: the hook's value and error state, the store, whether an
\* exception left setValue (threw), whether setStoredValue was called
\* (applied) and how the call ended (outcome).
\* lines 141-163 without the setItem of line 155
SetWithoutItem(key, stored, error, store, u, env, dataToStore) ==
    [value |-> dataToStore, error |-> NoError, store |-> store,
     threw |-> FALSE, applied |-> TRUE, outcome |-> "ok", attempts |-> 0, cleanups |-> 0]
\* lines 141-163: setStoredValue(dataToStore) and the write
StoreData(key, stored, error, store, u, env, dataToStore) ==
    IF ~env.avail
    THEN [value |-> dataToStore, error |-> error,
          store |-> store, threw |-> FALSE, applied |-> TRUE, outcome |-> "unavailable",
          attempts |-> 0, cleanups |-> 0]
    ELSE IF SerializedLength(dataToStore) > SizeLimit
    THEN Caught(key, stored, store, u, SizeError, env.availRetry, 0)
    ELSE IF env.fault = "none"
    THEN [value |-> dataToStore, error |-> NoError,
          store |-> [store EXCEPT ![key] = JSONstringify(dataToStore)],
          threw |-> FALSE, applied |-> TRUE, outcome |-> "ok",
          attempts |-> 1, cleanups |-> 0]
    ELSE Caught(key, stored, store, u, StoreError(env.fault), env.availRetry, 1)
\* lines 128-139 with a removeItem(key) added to the rejection
RejectedRemoves(key, stored, error, store, u, env, valueToStore, validation) ==
    IF ~validation.isValid
    THEN [value |-> stored,
          error |-> ErrorOf("INVALID_DATA", "Cannot store invalid data"),
          store |-> [store EXCEPT ![key] = NoItem],
          threw |-> FALSE, applied |-> FALSE, outcome |-> "invalid",
          attempts |-> 0, cleanups |-> 0]
    ELSE StoreData(key, stored, error, store, u, env,
                   IF validation.sanitized # Undef THEN validation.sanitized
                   ELSE valueToStore)
\* lines 128-139: the validation of valueToStore and the choice of dataToStore
Validated(key, stored, error, store, u, env, valueToStore, validation) ==
    IF ~validation.isValid
    THEN [value |-> stored,
          error |-> ErrorOf("INVALID_DATA", "Cannot store invalid data"),
          store |-> store, threw |-> FALSE, applied |-> FALSE, outcome |-> "invalid",
          attempts |-> 0, cleanups |-> 0]
    ELSE StoreData(key, stored, error, store, u, env,
                   IF validation.sanitized # Undef THEN validation.sanitized
                   ELSE valueToStore)
setValue(key, stored, error, store, u, env, now) ==
    LET computed == ApplyUpdate(u, stored)
    IN IF computed.threw
       THEN Caught(key, stored, store, u, TypeError, env.availRetry, 0)
       ELSE Validated(key, stored, error, store, u, env, computed.v,
                      validateLocalStorageData(key, computed.v, now))

\* a listener that ignores the event
ignoreStorageChange(key, stored, eventKey, newItem) == stored
\* a listener that falls back to the initial value when the new value
\* cannot be parsed
resetOnParseFailure(key, stored, eventKey, newItem) ==
    IF eventKey = key /\ newItem # NoItem
    THEN IF newItem.parseable THEN JSONparse(newItem) ELSE initialValue[key]
    ELSE stored
\* handleStorageChange (lines 212-220): the hook's value after the event
handleStorageChange(key, stored, eventKey, newItem) ==
    IF eventKey = key /\ newItem # NoItem /\ newItem.parseable
    THEN JSONparse(newItem)
    ELSE stored

(***************************************************************************)
(* Inputs of the model.                                                     *)
(***************************************************************************)
StoredTask(id, completed, order) ==
    TaskObject(Str(id), Str(DescStored), Bool(completed), Str(IsoString(1)), Num(order), 0)

\* values of the tasks key written by an earlier session or another context
TasksDense == Arr(<<StoredTask("a", FALSE, 0), StoredTask("b", TRUE, 1)>>)
\* order values with a gap and a duplicate, not following the array positions
TasksShuffled ==
    Arr(<<StoredTask("a", FALSE, 4), StoredTask("b", FALSE, 1), StoredTask("c", TRUE, 1)>>)
\* a task without description next to a well-formed one
TasksWithMalformed ==
    Arr(<<TaskObject(Str("m"), Undef, Bool(FALSE), Str(IsoString(1)), Num(0), 0),
          StoredTask("a", FALSE, 1)>>)
\* a task without createdAt and order
TasksUndated == Arr(<<TaskObject(Str("d"), Str(DescStored), Bool(FALSE), Undef, Undef, 0)>>)
\* a single task whose order is not 0
TasksGapped == Arr(<<StoredTask("g", FALSE, 2)>>)
\* a task that carries a property longer than the size limit
TasksHuge ==
    Arr(<<TaskObject(Str("e"), Str(DescStored), Bool(FALSE), Str(IsoString(1)), Num(0), SizeLimit)>>)
TaskItems ==
    {NoItem, Garbage, Text(Null), Text(TasksDense), Text(TasksShuffled),
     Text(TasksWithMalformed), Text(TasksUndated), Text(TasksGapped)}
FilterItems == {NoItem, Garbage, Text(Str("completed")), Text(Str("bogus"))}
ThemeItems == {NoItem, Text(Str("dark")), Text(Str("blue"))}

FilterArguments == {Str("all"), Str("completed"), Str("pending"), Str("bogus")}
IdNames == <<"u1", "u2", "u3", "u4">>
MissingId == Str("zz")

(***************************************************************************)
(* State.                                                                   *)
(***************************************************************************)
VARIABLES
    phase,        \* "unmounted" or "mounted"
    storage,      \* window.localStorage: key -> item
    storedValue,  \* the storedValue of the three hooks (rawTasks, filter, theme)
    errorState,   \* the errorState of the three hooks
    tasks,        \* the tasks memo of TaskProvider (a sequence of task objects)
    nextId,       \* index of the next uuid: those before it are the ids handed out
    faults,       \* calls so far that met a failing localStorage
    externals,    \* storage events so far
    last          \* the last call and how it ended
vars == <<phase, storage, storedValue, errorState, tasks, nextId, faults, externals, last>>

\* last: the operation called last, whether addTask accepted the description,
\* whether setStoredValue was called, whether an exception reached the caller,
\* how the write ended, how many times setItem was called for the key and
\* how many times the quota cleanup ran; for a call of a function of
\* validation.js, its argument and what it returned
NoCall ==
    [op |-> "none", key |-> "none", accepted |-> FALSE, applied |-> FALSE,
     threw |-> FALSE, outcome |-> "none", attempts |-> 0, cleanups |-> 0,
     argument |-> Undef, returned |-> Undef]
Call(op, key, accepted, r) ==
    [NoCall EXCEPT !.op = op, !.key = key, !.accepted = accepted, !.applied = r.applied,
                   !.threw = r.threw, !.outcome = r.outcome, !.attempts = r.attempts,
                   !.cleanups = r.cleanups]

\* the tasks memo (TaskContext.jsx lines 21-36)
TasksMemo(rawTasks, now) ==
    IF ~IsArray(rawTasks) THEN <<>> ELSE validateTasksArray(rawTasks, now).sanitizedTasks
\* useMemo recomputes when rawTasks is a new value
Recomputed(oldRaw, newRaw, applied, memo, now) ==
    IF applied \/ newRaw # oldRaw THEN TasksMemo(newRaw, now) ELSE memo

\* [...tasks] without the sort
Unsorted(ts) == ts
\* the stable Array.prototype.sort by order of filteredTasks (line 142)
SortedByOrder(ts) ==
    LET n == Len(ts)
        before(i, j) == ts[i].order.v < ts[j].order.v \/ (ts[i].order.v = ts[j].order.v /\ i < j)
        rank(i) == Cardinality({j \in 1..n : before(j, i)}) + 1
    IN [p \in 1..n |-> ts[CHOOSE i \in 1..n : rank(i) = p]]
\* filteredTasks (lines 140-153)
FilteredTasksOf(ts, f) ==
    CASE f = Str("completed") -> SelectSeq(SortedByOrder(ts), LAMBDA task : task.completed.v)
      [] f = Str("pending") -> SelectSeq(SortedByOrder(ts), LAMBDA task : ~task.completed.v)
      [] OTHER -> SortedByOrder(ts)
filteredTasks == FilteredTasksOf(tasks, storedValue["taskFilter"])

\* Date.now() is observable only in the createdAt of a new task and of a
\* stored task that has none
Undated(rawTasks) ==
    /\ IsArray(rawTasks)
    /\ \E i \in 1..Len(rawTasks.v) :
         IsTaskObject(rawTasks.v[i]) /\ rawTasks.v[i].createdAt.t # "Date"
         /\ ~Truthy(rawTasks.v[i].createdAt)
NowFor(rawTasks) == IF Undated(rawTasks) THEN Times ELSE {MaxTime}

\* the environments a call can meet
EnvsNow == IF faults < MaxFaults THEN Envs ELSE {EnvOk}
\* the call reaches the probe of line 147
ReachesWrite(key, u) ==
    LET computed == ApplyUpdate(u, storedValue[key])
    IN ~computed.threw /\ validateLocalStorageData(key, computed.v, MaxTime).isValid
EnvsFor(key, u) == IF ReachesWrite(key, u) THEN EnvsNow ELSE {EnvOk}
Met(env) == IF env = EnvOk THEN faults ELSE faults + 1

\* the page is not open yet; items: what earlier sessions may have left in
\* the storage; f, e: the failing calls and storage events already counted
InitWith(items, f, e) ==
    /\ phase = "unmounted"
    /\ storage \in items
    /\ storedValue = initialValue
    /\ errorState = [k \in Keys |-> NoError]
    /\ tasks = <<>>
    /\ nextId = 1
    /\ faults = f
    /\ externals = e
    /\ last = NoCall

(***************************************************************************)
(* The providers mount: the three hooks read their keys.                    *)
(***************************************************************************)
\* read: what each of the three hooks has read
Mounted(read, now) ==
    /\ storedValue' = [k \in Keys |-> read[k].value]
    /\ errorState' = [k \in Keys |-> read[k].error]
    /\ storage' = [k \in Keys |-> read[k].item]
    /\ tasks' = TasksMemo(storedValue'["tasks"], now)
Mount ==
    /\ phase = "unmounted"
    /\ \E avail \in (IF faults < MaxFaults THEN {TRUE, FALSE} ELSE {TRUE}) :
       \E now \in (IF avail /\ storage["tasks"].parseable
                   THEN NowFor(JSONparse(storage["tasks"])) ELSE {MaxTime}) :
         /\ Mounted([k \in Keys |-> InitialRead(k, storage, avail, now)], now)
         /\ faults' = IF avail THEN faults ELSE faults + 1
         /\ last' = [NoCall EXCEPT !.op = "mount",
                                   !.outcome = IF avail THEN "ok" ELSE "unavailable"]
    /\ phase' = "mounted"
    /\ UNCHANGED <<nextId, externals>>

\* the page is closed: the in-memory state is gone, the storage stays
Unmount ==
    /\ phase = "mounted"
    /\ phase' = "unmounted"
    /\ storedValue' = initialValue
    /\ errorState' = [k \in Keys |-> NoError]
    /\ tasks' = <<>>
    /\ last' = NoCall
    /\ UNCHANGED <<storage, nextId, faults, externals>>

\* the state after one call of the setter of the hook of key
Commit(op, key, accepted, r, env, now) ==
    /\ last' = Call(op, key, accepted, r)
    /\ storedValue' = [storedValue EXCEPT ![key] = r.value]
    /\ errorState' = [errorState EXCEPT ![key] = r.error]
    /\ storage' = r.store
    /\ tasks' = IF key = "tasks"
                THEN Recomputed(storedValue["tasks"], storedValue'["tasks"], last'.applied,
                                tasks, now)
                ELSE tasks
    /\ faults' = Met(env)

\* one call of the setter of the hook of key with the argument u
SetterCall(op, key, u) ==
    \E env \in EnvsFor(key, u), now \in NowFor(storedValue["tasks"]) :
      Commit(op, key, FALSE,
             setValue(key, storedValue[key], errorState[key], storage, u, env, now),
             env, now)

(***************************************************************************)
(* TaskContext.jsx: the operations of the store.                            *)
(***************************************************************************)
\* a new task with order: 0
NewTaskFirst(sanitized, now) ==
    TaskObject(Str(IdNames[nextId]), Str(sanitized), Bool(FALSE), DateV(now), Num(0), 0)
\* the task addTask builds (lines 51-57) from the sanitized description
NewTask(sanitized, now) ==
    TaskObject(Str(IdNames[nextId]), Str(sanitized), Bool(FALSE), DateV(now), Num(Len(tasks)), 0)

\* addTask (lines 42-60), as long as fewer than limit uuids were handed out
AddTaskWithin(limit, description) ==
    /\ phase = "mounted"
    /\ nextId <= limit
    /\ Len(tasks) < MaxTasks
    /\ LET validation == validateTaskDescription(Str(description))
       IN IF ~validation.isValid
          THEN /\ last' = [NoCall EXCEPT !.op = "addTask", !.threw = TRUE]
               /\ UNCHANGED <<storage, storedValue, errorState, tasks, nextId, faults>>
          ELSE \E now \in NowFor(storedValue["tasks"]) :
                 LET newTask == NewTask(validation.sanitized, now)
                     u == [kind |-> "add", task |-> newTask]
                 IN \E env \in EnvsFor("tasks", u) :
                      /\ Commit("addTask", "tasks", TRUE,
                                setValue("tasks", storedValue["tasks"], errorState["tasks"],
                                         storage, u, env, now),
                                env, now)
                      /\ nextId' = IF last'.applied THEN nextId + 1 ELSE nextId
    /\ UNCHANGED <<phase, externals>>
addTask(description) == AddTaskWithin(MaxNewIds, description)

\* the ids a caller can pass: those of the elements held, one of no task,
\* the empty string and no string at all
KnownIds ==
    {MissingId, Str(""), Undef} \cup
    (IF IsArray(storedValue["tasks"])
     THEN {IdOf(storedValue["tasks"].v[i]) : i \in 1..Len(storedValue["tasks"].v)} \ {Undef}
     ELSE {})

toggleTask(id) ==
    /\ phase = "mounted"
    /\ IF typeof(id) # "string" \/ id.v = ""
       THEN /\ last' = [NoCall EXCEPT !.op = "toggleTask"]
            /\ UNCHANGED <<storage, storedValue, errorState, tasks, faults>>
       ELSE SetterCall("toggleTask", "tasks", [kind |-> "toggle", id |-> id])
    /\ UNCHANGED <<phase, nextId, externals>>

deleteTask(id) ==
    /\ phase = "mounted"
    /\ IF typeof(id) # "string" \/ id.v = ""
       THEN /\ last' = [NoCall EXCEPT !.op = "deleteTask"]
            /\ UNCHANGED <<storage, storedValue, errorState, tasks, faults>>
       ELSE SetterCall("deleteTask", "tasks", [kind |-> "delete", id |-> id])
    /\ UNCHANGED <<phase, nextId, externals>>

\* the index pairs a caller can pass: the positions of the displayed tasks,
\* pairs with an index below or above them, and pairs with an index that is
\* NaN, a string or undefined
ValidPairs == {<<Num(i), Num(j)>> : i, j \in 0..(Len(tasks) - 1)}
IndexPairs ==
    ValidPairs
    \cup {<<Num(-1), Num(0)>>, <<Num(0), Num(-1)>>,
          <<Num(Len(tasks)), Num(0)>>, <<Num(0), Num(Len(tasks))>>,
          <<NaN, Num(1)>>, <<Num(0), NaN>>, <<Str("0"), Num(0)>>, <<Num(0), Undef>>}

\* the integer splice makes of its start argument
ToIntegerOrInfinity(x) == IF x = NaN THEN 0 ELSE x.v

reorderTasks(startIndex, endIndex) ==
    /\ phase = "mounted"
    /\ IF typeof(startIndex) # "number" \/ typeof(endIndex) # "number"
       THEN /\ last' = [NoCall EXCEPT !.op = "reorderTasks"]
            /\ UNCHANGED <<storage, storedValue, errorState, tasks, faults>>
       ELSE IF (startIndex # NaN /\ startIndex.v < 0) \/ (endIndex # NaN /\ endIndex.v < 0)
       THEN /\ last' = [NoCall EXCEPT !.op = "reorderTasks"]
            /\ UNCHANGED <<storage, storedValue, errorState, tasks, faults>>
       ELSE IF \/ (startIndex # NaN /\ startIndex.v >= Len(tasks))
               \/ (endIndex # NaN /\ endIndex.v >= Len(tasks))
       THEN /\ last' = [NoCall EXCEPT !.op = "reorderTasks"]
            /\ UNCHANGED <<storage, storedValue, errorState, tasks, faults>>
       ELSE SetterCall("reorderTasks", "tasks",
                       [kind |-> "reorder", from |-> ToIntegerOrInfinity(startIndex),
                        to |-> ToIntegerOrInfinity(endIndex)])
    /\ UNCHANGED <<phase, nextId, externals>>

(***************************************************************************)
(* TaskList.jsx: the end of a drag of the task active over the task over    *)
(* (Null: the task was dropped outside the list).                           *)
(***************************************************************************)
\* Array.prototype.findIndex by id
FindIndex(ts, id) ==
    IF \E i \in 1..Len(ts) : ts[i].id = id
    THEN Min({i \in 1..Len(ts) : ts[i].id = id}) - 1
    ELSE -1
\* the ids of the tasks on display
DisplayedIds == {filteredTasks[i].id : i \in 1..Len(filteredTasks)}

handleDragEnd(active, over) ==
    IF over = Null
    THEN \* over.id of line 52 throws a TypeError
         /\ phase = "mounted"
         /\ last' = [NoCall EXCEPT !.op = "handleDragEnd", !.threw = TRUE]
         /\ UNCHANGED <<phase, storage, storedValue, errorState, tasks, nextId, faults,
                        externals>>
    ELSE IF active # over /\ FindIndex(filteredTasks, active) # -1
            /\ FindIndex(filteredTasks, over) # -1
    THEN reorderTasks(Num(FindIndex(filteredTasks, active)),
                      Num(FindIndex(filteredTasks, over)))
    ELSE /\ phase = "mounted"
         /\ last' = [NoCall EXCEPT !.op = "handleDragEnd"]
         /\ UNCHANGED <<phase, storage, storedValue, errorState, tasks, nextId, faults,
                        externals>>

\* setFilter is the setter of the taskFilter hook (line 18)
setFilter(value) ==
    /\ phase = "mounted"
    /\ SetterCall("setFilter", "taskFilter", SetTo(value))
    /\ UNCHANGED <<phase, nextId, externals>>

\* toggleTheme of useTheme
toggleTheme ==
    /\ phase = "mounted"
    /\ SetterCall("toggleTheme", "theme", [kind |-> "toggleTheme"])
    /\ UNCHANGED <<phase, nextId, externals>>

(***************************************************************************)
(* Another context of the same origin sets key to item (or removes it) and  *)
(* the storage event reaches this tab.                                      *)
(***************************************************************************)
StorageEvent(key, item) ==
    /\ phase = "mounted"
    /\ externals < MaxExternal
    /\ storage[key] # item
    /\ storage' = [storage EXCEPT ![key] = item]
    /\ externals' = externals + 1
    /\ LET new == [k \in Keys |-> handleStorageChange(k, storedValue[k], key, item)]
       IN \E now \in NowFor(new["tasks"]) :
            /\ storedValue' = new
            /\ tasks' = Recomputed(storedValue["tasks"], new["tasks"], FALSE, tasks, now)
            /\ last' = [NoCall EXCEPT !.op = "storageEvent", !.key = key,
                                      !.applied = (new # storedValue)]
    /\ UNCHANGED <<phase, errorState, nextId, faults>>

(***************************************************************************)
(* Spec: the task store over a localStorage that works.  The user adds,     *)
(* toggles, deletes and reorders tasks; another context rewrites the tasks  *)
(* key.                                                                     *)
(***************************************************************************)
StoragesOf(key, items) == {[k \in Keys |-> IF k = key THEN item ELSE NoItem] : item \in items}
Init == InitWith(StoragesOf("tasks", TaskItems), MaxFaults, 0)
Next ==
    \/ Mount
    \/ Unmount
    \/ \E description \in Descriptions : addTask(description)
    \/ \E id \in KnownIds : deleteTask(id)
    \/ \E item \in TaskItems : StorageEvent("tasks", item)
Spec == Init /\ [][Next]_vars

(***************************************************************************)
(* SpecOrder: toggling, deleting and dragging the tasks at hand, over a     *)
(* localStorage that works.                                                *)
(***************************************************************************)
InitOrder == InitWith(StoragesOf("tasks", TaskItems), MaxFaults, 0)
NextOrder ==
    \/ Mount
    \/ Unmount
    \/ \E id \in KnownIds : toggleTask(id)
    \/ \E id \in KnownIds : deleteTask(id)
    \/ \E pair \in IndexPairs : reorderTasks(pair[1], pair[2])
    \/ \E item \in TaskItems : StorageEvent("tasks", item)
SpecOrder == InitOrder /\ [][NextOrder]_vars

(***************************************************************************)
(* SpecFaults: adding tasks and setting the filter over a localStorage that  *)
(* fails.                                                                   *)
(***************************************************************************)
FaultyStorages ==
    StoragesOf("tasks", {NoItem, Text(TasksHuge)})
    \cup {[k \in Keys |-> CASE k = "tasks" -> Text(TasksDense)
                            [] k = "taskFilter" -> Text(Str("completed"))
                            [] k = "theme" -> Text(Str("dark"))]}
InitFaults == InitWith(FaultyStorages, 0, MaxExternal)
NextFaults ==
    \/ Mount
    \/ Unmount
    \/ \E description \in Descriptions : addTask(description)
    \/ \E value \in FilterArguments : setFilter(value)
SpecFaults == InitFaults /\ [][NextFaults]_vars

(***************************************************************************)
(* SpecSettings: the filter and the theme.                                  *)
(***************************************************************************)
InitSettings ==
    InitWith(StoragesOf("taskFilter", FilterItems) \cup StoragesOf("theme", ThemeItems), 0, 0)
NextSettings ==
    \/ Mount
    \/ Unmount
    \/ \E value \in FilterArguments : setFilter(value)
    \/ toggleTheme
    \/ \E item \in FilterItems : StorageEvent("taskFilter", item)
    \/ \E item \in ThemeItems : StorageEvent("theme", item)
SpecSettings == InitSettings /\ [][NextSettings]_vars

(***************************************************************************)
(* SpecSingle: one tab over a localStorage that works, with every operation *)
(* of the store.                                                            *)
(***************************************************************************)
SingleStorages == StoragesOf("tasks", {NoItem, Text(TasksGapped)})
InitSingle == InitWith(SingleStorages, MaxFaults, MaxExternal)
NextSingle ==
    \/ Mount
    \/ Unmount
    \/ \E description \in Descriptions \cup {DescNested} : addTask(description)
    \/ \E id \in KnownIds : toggleTask(id)
    \/ \E id \in KnownIds : deleteTask(id)
    \/ \E pair \in IndexPairs : reorderTasks(pair[1], pair[2])
    \/ \E value \in {Str("completed"), Str("bogus")} : setFilter(value)
SpecSingle == InitSingle /\ [][NextSingle]_vars

(***************************************************************************)
(* SpecDrag: one tab over a localStorage that works; the tasks read at the  *)
(* start are toggled, filtered and dragged in the list on display.          *)
(***************************************************************************)
\* two stored tasks with the same id
TasksTwins == Arr(<<StoredTask("a", FALSE, 0), StoredTask("a", TRUE, 1)>>)
\* a pending task followed by two completed ones
TasksMixed ==
    Arr(<<StoredTask("a", FALSE, 0), StoredTask("b", TRUE, 1), StoredTask("c", TRUE, 2)>>)
InitDrag == InitWith(StoragesOf("tasks", {Text(TasksTwins), Text(TasksMixed)}), MaxFaults,
                     MaxExternal)
NextDrag ==
    \/ Mount
    \/ Unmount
    \/ \E id \in KnownIds : toggleTask(id)
    \/ \E value \in FilterArguments : setFilter(value)
    \/ \E active \in DisplayedIds, over \in DisplayedIds \cup {Null} :
         handleDragEnd(active, over)
SpecDrag == InitDrag /\ [][NextDrag]_vars

(***************************************************************************)
(* SpecHandler: one tab over a localStorage that works; an event handler    *)
(* calls two operations of the store one after the other.  Both calls run   *)
(* in the closures of the render at hand: setValue reads its storedValue    *)
(* (useLocalStorage.js line 126) and addTask its tasks.length.              *)
(***************************************************************************)
HandlerOps == {"addTask", "toggleTask", "deleteTask"}
\* the ids a handler passes: those of the tasks held and one of no task
HandlerIds == KnownIds \ {Str(""), Undef}
\* what the call hands to setRawTasks; used: the uuids made earlier in the
\* handler
UpdateOf(op, id, used) ==
    CASE op = "addTask" ->
           [kind |-> "add",
            task |-> TaskObject(Str(IdNames[nextId + used]),
                                Str(validateTaskDescription(Str(DescPlain)).sanitized),
                                Bool(FALSE), DateV(MaxTime), Num(Len(tasks)), 0)]
      [] op = "toggleTask" -> [kind |-> "toggle", id |-> id]
      [] op = "deleteTask" -> [kind |-> "delete", id |-> id]
Adds(op) == IF op = "addTask" THEN 1 ELSE 0

\* the state React commits after the handler: the last setStoredValue and
\* the last setErrorState win, the storage holds the last write
Both(r1, r2, made) ==
    /\ storedValue' = [storedValue EXCEPT !["tasks"] = IF r2.applied THEN r2.value
                                                      ELSE r1.value]
    /\ errorState' = [errorState EXCEPT !["tasks"] = r2.error]
    /\ storage' = r2.store
    /\ tasks' = Recomputed(storedValue["tasks"], storedValue'["tasks"],
                           r1.applied \/ r2.applied, tasks, MaxTime)
    /\ last' = [NoCall EXCEPT !.op = "twoCalls", !.key = "tasks",
                              !.applied = (r1.applied /\ r2.applied),
                              !.outcome = r2.outcome,
                              !.attempts = r1.attempts + r2.attempts]
    /\ nextId' = nextId + made
    /\ UNCHANGED <<phase, faults, externals>>
\* the second call: setValue of the same render, over the storage and the
\* error state the first call has left
Second(r1, u2, made) ==
    Both(r1,
         setValue("tasks", storedValue["tasks"], r1.error, r1.store, u2, EnvOk, MaxTime),
         made)
TwoCalls(op1, id1, op2, id2) ==
    /\ phase = "mounted"
    /\ (Adds(op1) + Adds(op2) > 0) => (nextId <= MaxNewIds /\ Len(tasks) < MaxTasks)
    /\ Second(setValue("tasks", storedValue["tasks"], errorState["tasks"], storage,
                       UpdateOf(op1, id1, 0), EnvOk, MaxTime),
              UpdateOf(op2, id2, Adds(op1)),
              Adds(op1) + Adds(op2))

InitHandler ==
    InitWith(StoragesOf("tasks", {NoItem, Text(TasksDense), Text(TasksMixed)}), MaxFaults,
             MaxExternal)
NextHandler ==
    \/ Mount
    \/ Unmount
    \/ \E op1, op2 \in HandlerOps, id1, id2 \in HandlerIds : TwoCalls(op1, id1, op2, id2)
SpecHandler == InitHandler /\ [][NextHandler]_vars

(***************************************************************************)
(* SpecGate: the functions of validation.js called on their own.  The       *)
(* argument is a text, an array of up to MaxTasks elements, null or         *)
(* undefined.                                                               *)
(***************************************************************************)
\* a task with an order value, a task without order and createdAt, a task
\* without description, and null
GateElements ==
    {StoredTask("a", FALSE, 5),
     TaskObject(Str("d"), Str(DescStored), Bool(TRUE), Undef, Undef, 0),
     TaskObject(Str("m"), Undef, Bool(FALSE), Str(IsoString(1)), Num(0), 0),
     Null}
GateArguments ==
    {Str(d) : d \in GateTexts} \cup {Null, Undef}
    \cup {Arr(elems) : elems \in UNION {[1..n -> GateElements] : n \in 0..MaxTasks}}

InitGate ==
    /\ phase = "unmounted"
    /\ storage = [k \in Keys |-> NoItem]
    /\ storedValue = initialValue
    /\ errorState = [k \in Keys |-> NoError]
    /\ tasks = <<>>
    /\ nextId = 1
    /\ faults = MaxFaults
    /\ externals = MaxExternal
    /\ last \in {[NoCall EXCEPT !.argument = input] : input \in GateArguments}

\* one call of an exported function with the argument at hand
Returned(op, value) ==
    /\ last.op = "none"
    /\ last' = [last EXCEPT !.op = op, !.returned = value]
    /\ UNCHANGED <<phase, storage, storedValue, errorState, tasks, nextId, faults, externals>>
SanitizeInputCall ==
    /\ ~IsArray(last.argument)
    /\ Returned("sanitizeInput", Str(sanitizeInput(last.argument)))
ValidateTaskDescriptionCall ==
    /\ ~IsArray(last.argument)
    /\ Returned("validateTaskDescription", validateTaskDescription(last.argument))
ValidateTasksArrayCall ==
    \E now \in NowFor(last.argument) :
      Returned("validateTasksArray", validateTasksArray(last.argument, now))
NextGate ==
    \/ SanitizeInputCall
    \/ ValidateTaskDescriptionCall
    \/ ValidateTasksArrayCall
SpecGate == InitGate /\ [][NextGate]_vars

(***************************************************************************)
(* SpecView: one tab over a localStorage that works; the tasks read at the  *)
(* start (in one array the order values do not follow the positions) are    *)
(* toggled and shown under each filter.                                     *)
(***************************************************************************)
InitView ==
    InitWith(StoragesOf("tasks", {Text(TasksShuffled), Text(TasksMixed)}), MaxFaults, 0)
NextView ==
    \/ Mount
    \/ Unmount
    \/ \E id \in KnownIds : toggleTask(id)
    \/ \E value \in FilterArguments : setFilter(value)
    \/ \E item \in FilterItems : StorageEvent("taskFilter", item)
SpecView == InitView /\ [][NextView]_vars

(***************************************************************************)
(* SpecTabs: two tabs of the application open over the same localStorage,   *)
(* which works.  In this specification storedValue, errorState and tasks    *)
(* give the three hooks' values, their error states and the tasks memo of   *)
(* each tab, and externals gives, for each tab, the storage events          *)
(* dispatched to it and not yet handled (the key and the new value of       *)
(* each).  A write by one tab changes the shared storage at once; the       *)
(* event reaches the other tab later.                                       *)
(***************************************************************************)
\* one stored task
TasksOne == Arr(<<StoredTask("a", FALSE, 0)>>)
Tabs == {"A", "B"}
Other(tab) == CHOOSE other \in Tabs : other # tab
TabOps == {"addTask", "toggleTask", "deleteTask"}
\* the ids of the tasks the tab shows
TabIds(tab) == {tasks[tab][i].id : i \in 1..Len(tasks[tab])}

\* both tabs have mounted over what an earlier session left
InitTabs ==
    /\ phase = "mounted"
    /\ storage \in StoragesOf("tasks", {NoItem, Text(TasksOne)})
    /\ storedValue = [tab \in Tabs |->
                        [k \in Keys |-> InitialRead(k, storage, TRUE, MaxTime).value]]
    /\ errorState = [tab \in Tabs |-> [k \in Keys |-> NoError]]
    /\ tasks = [tab \in Tabs |-> TasksMemo(storedValue[tab]["tasks"], MaxTime)]
    /\ nextId = 1
    /\ faults = MaxFaults
    /\ externals = [tab \in Tabs |-> <<>>]
    /\ last = NoCall

\* what the operation of the tab hands to setRawTasks
TabUpdate(tab, op, id) ==
    CASE op = "addTask" ->
           [kind |-> "add",
            task |-> TaskObject(Str(IdNames[nextId]),
                                Str(validateTaskDescription(Str(DescPlain)).sanitized),
                                Bool(FALSE), DateV(MaxTime), Num(Len(tasks[tab])), 0)]
      [] op = "toggleTask" -> [kind |-> "toggle", id |-> id]
      [] op = "deleteTask" -> [kind |-> "delete", id |-> id]

\* the state after setValue of the tab's tasks hook has returned r: setItem
\* dispatches a storage event to the other tab when it has changed the item
Written(tab, op, r) ==
    /\ storedValue' = [storedValue EXCEPT ![tab]["tasks"] = r.value]
    /\ errorState' = [errorState EXCEPT ![tab]["tasks"] = r.error]
    /\ storage' = r.store
    /\ tasks' = [tasks EXCEPT
                    ![tab] = Recomputed(storedValue[tab]["tasks"], r.value, r.applied,
                                        tasks[tab], MaxTime)]
    /\ externals' = IF r.store["tasks"] # storage["tasks"]
                    THEN [externals EXCEPT
                            ![Other(tab)] = Append(@, <<"tasks", r.store["tasks"]>>)]
                    ELSE externals
    /\ nextId' = IF op = "addTask" /\ r.applied THEN nextId + 1 ELSE nextId
    /\ last' = [Call(op, "tasks", op = "addTask", r) EXCEPT !.argument = Str(tab)]

\* one operation of the store in one tab
TabCall(tab, op, id) ==
    /\ Len(externals[Other(tab)]) < MaxExternal
    /\ op = "addTask" => (nextId <= MaxNewIds /\ Len(tasks[tab]) < MaxTasks)
    /\ Written(tab, op,
               setValue("tasks", storedValue[tab]["tasks"], errorState[tab]["tasks"], storage,
                        TabUpdate(tab, op, id), EnvOk, MaxTime))
    /\ UNCHANGED <<phase, faults>>

\* the tab handles the storage event at the head of its queue
Deliver(tab) ==
    /\ externals[tab] # <<>>
    /\ storedValue' =
         [storedValue EXCEPT
            ![tab] = [k \in Keys |->
                        handleStorageChange(k, storedValue[tab][k], Head(externals[tab])[1],
                                            Head(externals[tab])[2])]]
    /\ tasks' = [tasks EXCEPT
                    ![tab] = Recomputed(storedValue[tab]["tasks"], storedValue'[tab]["tasks"],
                                        FALSE, tasks[tab], MaxTime)]
    /\ externals' = [externals EXCEPT ![tab] = Tail(@)]
    /\ last' = [NoCall EXCEPT !.op = "storageEvent", !.key = Head(externals[tab])[1],
                              !.argument = Str(tab)]
    /\ UNCHANGED <<phase, storage, errorState, nextId, faults>>

NextTabs ==
    \/ \E tab \in Tabs, op \in TabOps :
         \E id \in (IF op = "addTask" THEN {Undef} ELSE TabIds(tab)) : TabCall(tab, op, id)
    \/ \E tab \in Tabs : Deliver(tab)
SpecTabs == InitTabs /\ [][NextTabs]_vars

(***************************************************************************)
(* SpecFresh: one tab over a localStorage that works and is empty at the    *)
(* start, with every operation of the store and as many new tasks as the    *)
(* collection may hold.                                                     *)
(***************************************************************************)
InitFresh == InitWith(StoragesOf("tasks", {NoItem}), MaxFaults, MaxExternal)
NextFresh ==
    \/ Mount
    \/ Unmount
    \/ \E description \in {DescPlain, DescSplit} : AddTaskWithin(MaxTasks, description)
    \/ \E id \in KnownIds : toggleTask(id)
    \/ \E id \in KnownIds : deleteTask(id)
    \/ \E pair \in IndexPairs : reorderTasks(pair[1], pair[2])
    \/ \E value \in {Str("completed"), Str("bogus")} : setFilter(value)
SpecFresh == InitFresh /\ [][NextFresh]_vars

(***************************************************************************)
(* The claims.  Helpers: the ids of a collection in sequence, and whether   *)
(* its order values are exactly 0 .. n-1.                                   *)
(***************************************************************************)
Ids(ts) == [i \in 1..Len(ts) |-> ts[i].id]
DenseOrders(ts) ==
    \A k \in 0..(Len(ts) - 1) : Cardinality({i \in 1..Len(ts) : ts[i].order = Num(k)}) = 1
IsPresent(id, ts) == \E i \in 1..Len(ts) : ts[i].id = id
\* the persisted tasks item is an array
PersistedArray == storage["tasks"].parseable /\ IsArray(JSONparse(storage["tasks"]))
PersistedTasks == JSONparse(storage["tasks"]).v
WellFormed(e) == validateTaskObject(e).isValid

\* C1: for every description validateTaskDescription accepts, addTask in
\* any reachable state makes the in-memory collection one task longer, and
\* the new task (with the fresh id) is last, has completed = false and has
\* order = the size of the collection before the call.
C1_AddTaskAppendsOne ==
    [][\A d \in Descriptions :
         addTask(d) /\ validateTaskDescription(Str(d)).isValid
         => /\ Len(tasks') = Len(tasks) + 1
            /\ tasks'[Len(tasks')].id = Str(IdNames[nextId])
            /\ tasks'[Len(tasks')].completed = Bool(FALSE)
            /\ tasks'[Len(tasks')].order = Num(Len(tasks))]_vars

\* C2: right after a deleteTask or reorderTasks that took effect, the order
\* values of the in-memory collection (the stored array and the tasks made
\* from it) are exactly 0 .. n-1, each once.
C2_DenseAfterDeleteOrReorder ==
    (last.op \in {"deleteTask", "reorderTasks"} /\ last.applied)
    => /\ IsArray(storedValue["tasks"])
       /\ Len(tasks) = Len(storedValue["tasks"].v)
       /\ DenseOrders(tasks)
       /\ DenseOrders(storedValue["tasks"].v)
\* a drag took effect on three tasks (only the array stored with the orders
\* 4, 1, 1 has three)
C2_Witness ==
    last.op = "reorderTasks" /\ last.applied /\ Len(tasks) = 3 /\ phase = "mounted"

\* C3: after the store is initialized from persisted tasks that are all
\* well-formed and whose order values have gaps or duplicates, the in-memory
\* order values are 0 .. n-1, given in ascending order of the stored order
\* values, ties by array position.
C3_LoadRedensifies ==
    [][(/\ Mount
        /\ last'.outcome = "ok"
        /\ PersistedArray
        /\ \A i \in 1..Len(PersistedTasks) :
             WellFormed(PersistedTasks[i]) /\ typeof(PersistedTasks[i].order) = "number"
        /\ ~DenseOrders(PersistedTasks))
       => LET sorted == SortedByOrder(PersistedTasks)
          IN /\ Len(tasks') = Len(sorted)
             /\ \A p \in 1..Len(sorted) :
                  \E i \in 1..Len(tasks') :
                    tasks'[i].id = sorted[p].id /\ tasks'[i].order = Num(p - 1)]_vars

\* C4: when the persisted tasks array holds well-formed and malformed
\* tasks, initialization keeps exactly the well-formed ones, in sequence.
C4_LoadKeepsWellFormed ==
    [][(/\ Mount
        /\ last'.outcome = "ok"
        /\ PersistedArray
        /\ \E i \in 1..Len(PersistedTasks) : WellFormed(PersistedTasks[i])
        /\ \E i \in 1..Len(PersistedTasks) : ~WellFormed(PersistedTasks[i]))
       => Ids(tasks') = Ids(SelectSeq(PersistedTasks, WellFormed))]_vars
\* the outcomes of setValue that are failures of the write
WriteFailures == {"oversize", "quota", "security", "other"}
\* the array a caller of addTask(d) asks setValue to set
AskedByAdd(d) ==
    {addTaskUpdater(storedValue["tasks"],
                    NewTask(validateTaskDescription(Str(d)).sanitized, now)).v : now \in Times}

C6_QuotaOnAddTask ==
    (last.op = "addTask" /\ last.outcome = "quota")
    => /\ IsPresent(Str(IdNames[nextId - 1]), tasks)
       /\ IsPresent(Str(IdNames[nextId - 1]), storedValue["tasks"].v)
       /\ errorState["tasks"].hasError
       /\ errorState["tasks"].errorType = "QUOTA_EXCEEDED"
\* addTask met a quota error and the cleanup removed the filter and theme
C6_Witness ==
    /\ last.op = "addTask" /\ last.outcome = "quota"
    /\ storage["tasks"] = Text(TasksDense) /\ storage["theme"] = NoItem
    /\ Len(tasks) = 3

\* C7: setFilter with a value that is no filter leaves the in-memory filter
\* and the persisted filter at "all", whatever the filter was, and sets no
\* error state.
C7_BogusFilterFallsBack ==
    [][\A value \in FilterArguments \ validFilters :
         setFilter(value)
         => /\ storedValue'["taskFilter"] = Str("all")
            /\ storage'["taskFilter"] \in {NoItem, Text(Str("all"))}
            /\ ~last'.threw
            /\ ~errorState'["taskFilter"].hasError]_vars
\* what a second call of the setter of the tasks hook, made right after the
\* step, leaves in memory: the stored array and the tasks made from it
SecondCall(u, now) ==
    setValue("tasks", storedValue'["tasks"], errorState'["tasks"], storage', u, EnvOk, now)

\* C8: toggleTask(id), for an id of the collection, called twice in
\* succession, the second call applied to the result of the first, returns
\* the task to its completed value and leaves every other field of every
\* task as it was.
C8_ToggleTwiceRestores ==
    [][\A id \in KnownIds :
         toggleTask(id) /\ last'.applied /\ IsPresent(id, tasks)
         => \A now \in NowFor(storedValue'["tasks"]) :
              LET second == SecondCall([kind |-> "toggle", id |-> id], now)
              IN /\ second.applied
                 /\ second.value = storedValue["tasks"]
                 /\ TasksMemo(second.value, now) = tasks]_vars

\* C9: reorderTasks(i, j) followed by reorderTasks(j, i), for valid indices
\* i and j, restores the sequence of task ids of the order-sorted view.
C9_ReorderAndBackRestores ==
    [][\A pair \in ValidPairs :
         reorderTasks(pair[1], pair[2]) /\ last'.applied
         => \A now \in NowFor(storedValue'["tasks"]) :
              LET second == SecondCall([kind |-> "reorder", from |-> pair[2].v,
                                        to |-> pair[1].v], now)
              IN /\ second.applied
                 /\ Ids(SortedByOrder(TasksMemo(second.value, now))) = Ids(SortedByOrder(tasks))]_vars

\* C10: deleteTask(id), for an id of the collection, removes that task and
\* leaves the others in the sequence they had in the order-sorted view,
\* numbered 0 .. n-2 in that sequence.
C10_DeleteKeepsSequence ==
    [][\A id \in KnownIds :
         deleteTask(id) /\ last'.applied /\ IsPresent(id, tasks)
         => LET before == SelectSeq(SortedByOrder(tasks), LAMBDA task : task.id # id)
                after == SortedByOrder(tasks')
            IN /\ Ids(after) = Ids(before)
               /\ \A p \in 1..Len(after) : after[p].order = Num(p - 1)]_vars

\* the operations of the store that change a persisted value
Mutations == {"addTask", "toggleTask", "deleteTask", "reorderTasks", "setFilter"}

\* C11: in one tab whose writes succeed, right after a mutating operation
\* that took effect, the item under the operation's key is the serialization
\* of the in-memory value, and reading it back as the store reads it gives
\* the in-memory value (the tasks collection, or the filter).
C11_PersistedIsMemory ==
    (last.op \in Mutations /\ last.applied)
    => /\ storage[last.key] = JSONstringify(storedValue[last.key])
       /\ last.key = "tasks"
          => \E now \in Times : TasksMemo(JSONparse(storage["tasks"]), now) = tasks
       /\ last.key = "taskFilter"
          => JSONparse(storage["taskFilter"]) = storedValue["taskFilter"]
\* a task was added to the task read at the start, and persisted
C11_Witness ==
    /\ last.op = "addTask" /\ last.applied /\ Len(tasks) = 2
    /\ storage["tasks"].parseable /\ Len(JSONparse(storage["tasks"]).v) = 2

\* C12: in every reachable state no two tasks of the in-memory collection
\* have the same id (so that toggleTask and deleteTask act on one task).
C12_IdsUnique ==
    \A i, j \in 1..Len(tasks) : tasks[i].id = tasks[j].id => i = j

\* C13: in every reachable state the active filter is one of all,
\* completed, pending.
C13_FilterIsEnumerated ==
    storedValue["taskFilter"] \in validFilters

\* C14: addTask with a description that validateTaskDescription rejects
\* (empty once sanitized, longer than 500 characters, or on the denylist)
\* throws to the caller and leaves the in-memory collection, the persisted
\* values and the error state as they were.
C14_RejectedAddTaskThrows ==
    [][\A d \in Descriptions :
         last'.op = "addTask" /\ ~DescriptionResults[d].isValid /\ addTask(d)
         => /\ last'.threw /\ ~last'.accepted
            /\ UNCHANGED <<tasks, storedValue, storage, errorState>>]_vars
\* addTask has thrown while the collection holds tasks
C14_Witness ==
    last.op = "addTask" /\ last.threw /\ ~last.accepted /\ Len(tasks) = 2

\* the id, completed flag and order value of each task, in sequence
Shape(ts) == [i \in 1..Len(ts) |-> <<ts[i].id, ts[i].completed, ts[i].order>>]

\* C15: toggleTask(id) and deleteTask(id) with an id that matches no task of
\* the collection (or that is empty or no string) leave the in-memory
\* collection with the same tasks, completed flags and order values.
C15_UnknownIdChangesNothing ==
    [][\A id \in KnownIds :
         (toggleTask(id) \/ deleteTask(id)) /\ ~IsPresent(id, tasks)
         => Shape(tasks') = Shape(tasks)]_vars

\* C16: reorderTasks with an index that is negative, not below the size of
\* the collection, or not a number leaves the in-memory collection and the
\* persisted tasks as they were, and throws nothing.
C16_InvalidIndexIsNoOp ==
    [][\A pair \in IndexPairs \ ValidPairs :
         reorderTasks(pair[1], pair[2])
         => /\ ~last'.threw
            /\ UNCHANGED <<tasks, storage>>
            /\ storedValue'["tasks"] = storedValue["tasks"]]_vars

\* C17: when a displayed task is dragged onto another displayed task, under
\* any filter, the dragged task takes the position the other task had in
\* the displayed view and the other displayed tasks keep their sequence.
C17_DragMovesTheDraggedTask ==
    [][\A active \in DisplayedIds, over \in DisplayedIds :
         active # over /\ handleDragEnd(active, over)
         => LET from == FindIndex(filteredTasks, active) + 1
                to == FindIndex(filteredTasks, over) + 1
            IN Ids(filteredTasks')
               = InsertAt(RemoveAt(Ids(filteredTasks), from), to, active)]_vars

\* what reading the key gives: the value of the item, or the default of the
\* key when there is no item
PersistedValue(key) ==
    IF storage[key] = NoItem THEN initialValue[key] ELSE JSONparse(storage[key])

\* C18: in one tab, in every state that follows an operation, a key whose
\* persisted value (its default when the key is absent) differs from its
\* in-memory value has hasError = true in the error state of its store.
C18_UnpersistedIsReported ==
    (phase = "mounted" /\ last.op \in Mutations)
    => \A key \in Keys :
         PersistedValue(key) # ToJSON(storedValue[key]) => errorState[key].hasError

\* C19: a call of the setter whose write meets a quota error makes one
\* cleanup pass and then one retry of the write (two calls of setItem for
\* the key); a call that meets any other failure makes no cleanup and no
\* retry; no call makes more than two attempts.
C19_OneCleanupOneRetry ==
    last.op \in Mutations
    => /\ last.outcome = "quota" => (last.cleanups = 1 /\ last.attempts = 2)
       /\ last.outcome \in {"security", "other", "oversize", "unavailable"}
          => (last.cleanups = 0 /\ last.attempts <= 1)
       /\ last.attempts <= 2

\* C20: a write whose serialization is longer than the size limit makes no
\* call of setItem and is handled as a quota failure: the error state has
\* the type QUOTA_EXCEEDED and the quota cleanup is applied as for a quota
\* error.
C20_OversizeIsQuota ==
    (last.op \in Mutations /\ last.outcome = "oversize")
    => /\ last.attempts = 0
       /\ errorState[last.key].errorType = "QUOTA_EXCEEDED"

\* C21: a call of the setter with a value the validator of the key rejects
\* sets the error type INVALID_DATA and leaves the storage as it was: no
\* item is written or removed, under any key.
C21_RejectedWriteLeavesStore ==
    [][last'.outcome = "invalid"
       => /\ storage' = storage
          /\ errorState'[last'.key].errorType = "INVALID_DATA"
          /\ ~last'.threw
          /\ last'.attempts = 0]_vars
\* setFilter with a value that is no filter, over a persisted filter
C21_Witness ==
    /\ last.op = "setFilter" /\ last.outcome = "invalid"
    /\ storage["taskFilter"] = Text(Str("completed"))
    /\ errorState["taskFilter"].errorType = "INVALID_DATA"

\* C22: when the item read at the start parses and the validator of its key
\* rejects the parsed value, the in-memory value is the initial value, the
\* error type is INVALID_DATA and the item is removed from the storage.
C22_InvalidReadFallsBack ==
    [][(last'.op = "mount" /\ last'.outcome = "ok" /\ Mount)
       => \A k \in Keys :
            (/\ storage[k].parseable
             /\ ~validateLocalStorageData(k, JSONparse(storage[k]), MaxTime).isValid)
            => /\ storedValue'[k] = initialValue[k]
               /\ errorState'[k].errorType = "INVALID_DATA"
               /\ storage'[k] = NoItem]_vars
\* the tasks item was rejected at the start and removed
C22_Witness ==
    /\ last.op = "mount"
    /\ errorState["tasks"].errorType = "INVALID_DATA"
    /\ storage["tasks"] = NoItem /\ storedValue["tasks"] = Arr(<<>>)

\* C23: when the item read at the start cannot be parsed, the in-memory
\* value is the initial value, the error type is PARSE_ERROR and the item is
\* removed, so that the next initial read finds no item and sets no error.
C23_UnparseableReadFallsBack ==
    [][(last'.op = "mount" /\ last'.outcome = "ok" /\ Mount)
       => \A k \in Keys :
            storage[k] = Garbage
            => /\ storedValue'[k] = initialValue[k]
               /\ errorState'[k].errorType = "PARSE_ERROR"
               /\ storage'[k] = NoItem
               /\ InitialRead(k, storage', TRUE, MaxTime)
                  = [value |-> initialValue[k], error |-> NoError, item |-> NoItem]]_vars
\* the filter item could not be parsed and was removed
C23_Witness ==
    /\ last.op = "mount"
    /\ errorState["taskFilter"].errorType = "PARSE_ERROR"
    /\ storage["taskFilter"] = NoItem /\ storedValue["taskFilter"] = Str("all")

\* C24: a storage event for the tasks key with a parseable new value makes
\* the parsed value the in-memory value as a whole, whatever the value in
\* memory was and whatever was done before; the tasks are those made from
\* the new value alone.
C24_EventReplacesValue ==
    [][\A item \in TaskItems :
         (/\ last'.op = "storageEvent"
          /\ item.parseable
          /\ StorageEvent("tasks", item))
         => /\ storedValue'["tasks"] = JSONparse(item)
            /\ \E now \in Times : tasks' = TasksMemo(JSONparse(item), now)]_vars
\* the array written by another context replaced the value in memory
C24_Witness ==
    /\ last.op = "storageEvent" /\ last.applied
    /\ storedValue["tasks"] = TasksShuffled
    /\ \E i \in 1..Len(tasks) : tasks[i].id = Str("c")

\* the operations that change the tasks collection
TaskMutations == {"addTask", "toggleTask", "deleteTask", "reorderTasks"}
\* the id, description, completed flag and order value of each task
Fields(ts) ==
    [i \in 1..Len(ts) |-> <<ts[i].id, ts[i].description, ts[i].completed, ts[i].order>>]

\* C25: right after an addTask, toggleTask, deleteTask or reorderTasks
\* whose write succeeded, a fresh initial read of the persisted tasks sets no
\* error and gives a collection with the same tasks in the same sequence,
\* each with the same id, description, completed flag and order value.
C25_ReloadRestores ==
    (last.op \in TaskMutations /\ last.applied /\ last.outcome = "ok")
    => \A now \in Times :
         LET read == InitialRead("tasks", storage, TRUE, now)
         IN /\ read.error = NoError
            /\ Fields(TasksMemo(read.value, now)) = Fields(tasks)
\* a task whose stored description is sanitized once more when it is read
\* was added to the task read at the start, and persisted
C25_Witness ==
    /\ last.op = "addTask" /\ last.applied /\ last.outcome = "ok"
    /\ Len(tasks) = 2
    /\ tasks[2].description = Str(<<"k">>)
    /\ storedValue["tasks"].v[2].description # tasks[2].description
    /\ tasks[1].order = Num(2)

\* C29: after an addTask that took effect, on any collection the store can
\* hold, the new task is the last element of the order-sorted view under the
\* filter all and no other task has its order value.
C29_NewTaskIsLast ==
    [][\A d \in Descriptions :
         (last'.op = "addTask" /\ last'.applied /\ addTask(d))
         => LET view == FilteredTasksOf(tasks', Str("all"))
                new == Str(IdNames[nextId])
            IN /\ view # <<>>
               /\ view[Len(view)].id = new
               /\ \A i, j \in 1..Len(view) :
                    (view[i].id = new /\ view[j].order = view[i].order) => i = j]_vars

\* C26: for an array, validateTasksArray returns in sanitizedTasks exactly
\* the elements validateTaskObject accepts, in the sequence they have in the
\* array, each with its own order value (the index of the element in the
\* array when it has none); removedCount is the number of elements left
\* out, and the result is valid exactly when removedCount is 0.  For an
\* argument that is no array the result is not valid and sanitizedTasks is
\* empty.
C26_SurvivorsKept ==
    last.op = "validateTasksArray"
    => IF IsArray(last.argument)
       THEN LET elems == last.argument.v
                passing == {i \in 1..Len(elems) : validateTaskObject(elems[i]).isValid}
                nth(p) == CHOOSE i \in passing : Cardinality({j \in passing : j < i}) = p - 1
            IN /\ Len(last.returned.sanitizedTasks) = Cardinality(passing)
               /\ \A p \in 1..Cardinality(passing) :
                    /\ last.returned.sanitizedTasks[p].id = elems[nth(p)].id
                    /\ last.returned.sanitizedTasks[p].completed = elems[nth(p)].completed
                    /\ last.returned.sanitizedTasks[p].order
                       = IF elems[nth(p)].order = Undef THEN Num(nth(p) - 1)
                         ELSE elems[nth(p)].order
               /\ last.returned.removedCount = Len(elems) - Cardinality(passing)
               /\ last.returned.isValid <=> (last.returned.removedCount = 0)
       ELSE /\ ~last.returned.isValid
            /\ last.returned.sanitizedTasks = <<>>
\* of three elements the one without description was left out; the task
\* with order 5 keeps it and the task without order has its index, 2
C26_Witness ==
    /\ last.op = "validateTasksArray" /\ IsArray(last.argument)
    /\ Len(last.argument.v) = 3
    /\ last.returned.removedCount = 1
    /\ last.returned.sanitizedTasks[1].order = Num(5)
    /\ last.returned.sanitizedTasks[2].order = Num(2)

\* C27: sanitizeInput removes a script block with its content: for
\* <script>alert(1)</script>hello it returns hello.
C27_ScriptBlockRemoved ==
    (last.op = "sanitizeInput" /\ last.argument = Str(DescScript))
    => last.returned = Str(Hello)

\* C28: for every argument whose sanitized text is longer than 500
\* characters validateTaskDescription fails with the too-long error and
\* returns as sanitized the first 500 characters of the sanitized text, also
\* when the argument is on the denylist; for an argument whose sanitized text
\* has at most 500 characters, whatever its own length, the error is another
\* one or none.
C28_TooLongTruncates ==
    last.op = "validateTaskDescription"
    => IF Len(sanitizeInput(last.argument)) > MaxDescriptionLength
       THEN /\ ~last.returned.isValid
            /\ last.returned.error = "Task description must be 500 characters or less"
            /\ last.returned.sanitized
               = SubSeq(sanitizeInput(last.argument), 1, MaxDescriptionLength)
            /\ Len(last.returned.sanitized) = MaxDescriptionLength
       ELSE last.returned.error # "Task description must be 500 characters or less"
\* a denylisted text of 505 characters was found too long
C28_Witness ==
    /\ last.op = "validateTaskDescription" /\ last.argument = Str(DescLongDenied)
    /\ last.returned.error = "Task description must be 500 characters or less"
    /\ Len(last.returned.sanitized) = MaxDescriptionLength

\* what a call is for, seen in the collection after the handler: the new
\* task is there, the task's completed flag has changed, the task is gone
Effect(op, id, used, before, after) ==
    CASE op = "addTask" -> IsPresent(Str(IdNames[nextId + used]), after)
      [] op = "toggleTask" ->
           \A i \in 1..Len(before) :
             before[i].id = id
             => \E j \in 1..Len(after) :
                  after[j].id = id /\ after[j].completed # before[i].completed
      [] op = "deleteTask" -> ~IsPresent(id, after)

\* C30: when a handler calls two operations one after the other (two
\* addTask, or calls for two different tasks) and both take effect, the
\* effects of both are in the in-memory collection and in the persisted
\* tasks afterwards.
C30_CallsCompose ==
    [][\A op1, op2 \in HandlerOps, id1, id2 \in HandlerIds :
         (/\ last'.op = "twoCalls" /\ last'.applied
          /\ (id1 # id2 \/ (op1 = "addTask" /\ op2 = "addTask"))
          /\ TwoCalls(op1, id1, op2, id2))
         => /\ Effect(op1, id1, 0, tasks, tasks')
            /\ Effect(op2, id2, Adds(op1), tasks, tasks')
            /\ Effect(op1, id1, 0, tasks, JSONparse(storage'["tasks"]).v)
            /\ Effect(op2, id2, Adds(op1), tasks, JSONparse(storage'["tasks"]).v)]_vars

\* how many times the task is in the sequence
Occurrences(task, ts) == Cardinality({i \in 1..Len(ts) : ts[i] = task})
\* the tasks the filter lets through
Passes(task, f) ==
    CASE f = Str("completed") -> task.completed = Bool(TRUE)
      [] f = Str("pending") -> task.completed = Bool(FALSE)
      [] OTHER -> TRUE

\* C31: in every reachable state with the filter completed, pending or all,
\* filteredTasks holds each task of the collection that the filter lets
\* through (the completed ones, the incomplete ones, all of them) as many
\* times as the collection does, holds no other task, and its order values
\* ascend.
C31_FilteredIsSortedSelection ==
    storedValue["taskFilter"] \in validFilters
    => /\ \A i \in 1..Len(tasks) :
            Occurrences(tasks[i], filteredTasks)
            = IF Passes(tasks[i], storedValue["taskFilter"]) THEN Occurrences(tasks[i], tasks)
              ELSE 0
       /\ \A j \in 1..Len(filteredTasks) : Occurrences(filteredTasks[j], tasks) > 0
       /\ \A j, k \in 1..Len(filteredTasks) :
            j < k => filteredTasks[j].order.v <= filteredTasks[k].order.v
\* of the tasks stored as a, b, c with the order values 4, 1, 1, the filter
\* pending shows the incomplete b and a, in that sequence
C31_Witness ==
    /\ storedValue["taskFilter"] = Str("pending")
    /\ Ids(tasks) = <<Str("a"), Str("b"), Str("c")>>
    /\ Ids(filteredTasks) = <<Str("b"), Str("a")>>

\* the task after is the task before but for its order value
SameButOrder(before, after) == after = [before EXCEPT !.order = after.order]
\* the task after is the task before but for its completed flag
SameButCompleted(before, after) == after = [before EXCEPT !.completed = after.completed]

\* C32: toggleTask leaves the collection as long as it was, changes at most
\* the completed flag of the tasks with the id and nothing of the others;
\* after deleteTask and reorderTasks every task of the collection is a task
\* held before with at most its order value changed.  So no operation
\* changes the id, description or createdAt of a task.
C32_OperationsKeepIdentity ==
    [][/\ \A id \in KnownIds :
            (last'.op = "toggleTask" /\ toggleTask(id))
            => /\ Len(tasks') = Len(tasks)
               /\ \A i \in 1..Len(tasks) :
                    IF tasks[i].id = id THEN SameButCompleted(tasks[i], tasks'[i])
                    ELSE tasks'[i] = tasks[i]
       /\ \A id \in KnownIds :
            (last'.op = "deleteTask" /\ deleteTask(id))
            => \A j \in 1..Len(tasks') :
                 \E i \in 1..Len(tasks) : SameButOrder(tasks[i], tasks'[j])
       /\ \A pair \in IndexPairs :
            (last'.op = "reorderTasks" /\ reorderTasks(pair[1], pair[2]))
            => \A j \in 1..Len(tasks') :
                 \E i \in 1..Len(tasks) : SameButOrder(tasks[i], tasks'[j])]_vars

\* C33: a storage event for a key whose new value is a text that cannot be
\* parsed leaves the value in memory, the tasks made from it and the error
\* state of every hook as they were.
C33_UnparseableEventIgnored ==
    [][\A key \in Keys :
         (last'.op = "storageEvent" /\ StorageEvent(key, Garbage))
         => UNCHANGED <<storedValue, tasks, errorState>>]_vars
\* the tasks key was overwritten with an unparseable text while three tasks
\* were in memory
C33_Witness ==
    /\ last.op = "storageEvent" /\ last.key = "tasks" /\ ~last.applied
    /\ storage["tasks"] = Garbage
    /\ Len(tasks) = 3 /\ ~errorState["tasks"].hasError

\* C34: while the page is open the theme in memory is light or dark, also
\* after a storage event for the theme key; a toggleTheme whose write
\* succeeds puts the other of the two themes in memory and persists it under
\* the theme key, and a second toggleTheme right after it gives back the
\* theme held before the first.
C34_ThemeIsOneOfTwo ==
    /\ [](phase = "mounted" => storedValue["theme"] \in validThemes)
    /\ [][(last'.op = "toggleTheme" /\ last'.outcome = "ok" /\ toggleTheme)
          => /\ storedValue'["theme"] \in validThemes \ {storedValue["theme"]}
             /\ storage'["theme"] = JSONstringify(storedValue'["theme"])
             /\ setValue("theme", storedValue'["theme"], errorState'["theme"], storage',
                         [kind |-> "toggleTheme"], EnvOk, MaxTime).value
                = storedValue["theme"]]_vars

\* C35: when validateTaskDescription accepts its argument and returns the
\* sanitized text S, validateTaskDescription accepts S and returns S again,
\* and validateTaskObject accepts a task whose description is S.
C35_RevalidationStable ==
    (last.op = "validateTaskDescription" /\ last.returned.isValid)
    => /\ validateTaskDescription(Str(last.returned.sanitized)).isValid
       /\ validateTaskDescription(Str(last.returned.sanitized)).sanitized
          = last.returned.sanitized
       /\ validateTaskObject(TaskObject(Str("n"), Str(last.returned.sanitized), Bool(FALSE),
                                        DateV(MaxTime), Num(0), 0)).isValid

\* the store has just adopted a parseable tasks value from a storage event
Adopted ==
    /\ last.op = "storageEvent" /\ last.key = "tasks"
    /\ storage["tasks"].parseable
    /\ storedValue["tasks"] = JSONparse(storage["tasks"])

\* C36: right after the store has adopted a parseable tasks value from a
\* storage event, addTask of a plain description makes the collection one
\* task longer, toggleTask of a task of the collection changes its
\* completed flag, deleteTask of a task of the collection removes it, and
\* reorderTasks between two positions of the collection changes the array
\* in memory.
C36_OperationsWorkAfterAdoption ==
    [][Adopted
       => /\ \A d \in {DescPlain, DescTagged} :
               (last'.op = "addTask" /\ addTask(d)) => Len(tasks') = Len(tasks) + 1
          /\ \A id \in KnownIds :
               (last'.op = "toggleTask" /\ IsPresent(id, tasks) /\ toggleTask(id))
               => \E i \in 1..Len(tasks) :
                    /\ tasks[i].id = id /\ Len(tasks') = Len(tasks)
                    /\ tasks'[i].completed # tasks[i].completed
          /\ \A id \in KnownIds :
               (last'.op = "deleteTask" /\ IsPresent(id, tasks) /\ deleteTask(id))
               => ~IsPresent(id, tasks')
          /\ \A pair \in ValidPairs :
               (last'.op = "reorderTasks" /\ pair[1] # pair[2]
                /\ reorderTasks(pair[1], pair[2]))
               => storedValue'["tasks"] # storedValue["tasks"]]_vars

\* the array persisted under the tasks key (none: the empty array)
PersistedTasksValue ==
    IF storage["tasks"] = NoItem THEN ToJSON(initialValue["tasks"])
    ELSE JSONparse(storage["tasks"])

\* C37: with two tabs over the same storage, whenever every storage event
\* has been handled, the tasks array each tab holds in memory is, once
\* serialized, the array persisted under the tasks key.
C37_TabsConverge ==
    (\A tab \in Tabs : externals[tab] = <<>>)
    => \A tab \in Tabs : ToJSON(storedValue[tab]["tasks"]) = PersistedTasksValue

\* C38: in every state reached from an empty storage by addTask,
\* toggleTask, deleteTask, reorderTasks and setFilter (and reloads), each
\* task of the stored array and of the collection has its position as its
\* order value, so that the order values are 0 .. n-1 and the order-sorted
\* view is the stored array sequence.
C38_OrderIsPosition ==
    phase = "mounted"
    => /\ IsArray(storedValue["tasks"])
       /\ Len(tasks) = Len(storedValue["tasks"].v)
       /\ \A i \in 1..Len(tasks) :
            /\ tasks[i].order = Num(i - 1)
            /\ storedValue["tasks"].v[i].order = Num(i - 1)
            /\ tasks[i].id = storedValue["tasks"].v[i].id
       /\ DenseOrders(tasks)
       /\ SortedByOrder(tasks) = tasks
\* the third task added was dragged to the front of the two added before
C38_Witness ==
    /\ last.op = "reorderTasks" /\ last.applied
    /\ Ids(tasks) = <<Str("u3"), Str("u1"), Str("u2")>>

\* C39: a call of the setter of one key leaves the items of the other keys
\* as they were, but for the quota cleanup, which removes taskFilter and
\* theme and nothing else; the cleanup leaves the item of the key being
\* written in place.  So the persisted tasks change only by a write of the
\* tasks key.
C39_WritesKeepOtherKeys ==
    [][last'.key \in Keys /\ last'.op # "storageEvent"
       => /\ last'.key # "tasks" => storage'["tasks"] = storage["tasks"]
          /\ \A k \in Keys \ {last'.key} :
               storage'[k] # storage[k]
               => /\ k \in keysToTry /\ storage'[k] = NoItem
                  /\ last'.outcome = "quota" /\ last'.cleanups = 1
          /\ last'.cleanups > 0 => storage'[last'.key] = storage[last'.key]]_vars
\* setFilter met a quota error: the cleanup removed the theme and left the
\* tasks and the filter being written
C39_Witness ==
    /\ last.op = "setFilter" /\ last.outcome = "quota" /\ last.cleanups = 1
    /\ storage["tasks"] = Text(TasksDense)
    /\ storage["taskFilter"] = Text(Str("completed"))
    /\ storage["theme"] = NoItem


===========================================================================
